---- MODULE Spec2Model ----
(***************************************************************************)
(* A model of lib/run.js (class Helper): the suite resolution (transform), *)
(* the build pipeline (buildTestApps), the capability matrix               *)
(* (createTests), the Appium readiness watch (runAppium) and the           *)
(* Genymotion launch with its log-file watch (launchGeny).                 *)
(*                                                                         *)
(* Node runs one callback at a time.  An event handler (a child process's  *)
(* 'exit' or 'data' event, a file-watch event) is one action; a promise    *)
(* reaction (.then callback) is one action too, and while a reaction is    *)
(* pending no event handler can run (microtasks drain before the next      *)
(* event is dispatched).                                                   *)
(***************************************************************************)
EXTENDS Integers, Sequences, FiniteSets, TLC

\* ------------------------------------------------------------------ bounds
\* Longest target list handed to buildTestApps.
MaxTargets == 3
\* Output chunks ('data' events) one appc process delivers at most.
MaxOutput == 1
\* Stdout chunks the Appium server delivers at most.
MaxChunks == 2
\* Longest emulator log (in lines) and most read streams open at a time.
MaxLog == 2
MaxStreams == 1

\* ------------------------------------------------------- buildTestApps: data
Undefined == "undefined"

\* Suite names, platforms and project names of the configuration.
SuiteNames == {"login", "signup"}
Platforms == {"ios", "android"}
Projs == {"AppA", "AppB"}

\* The part of a transform() target buildTestApps reads: {name, platform}.
Targets == [name : SuiteNames, platform : Platforms]

\* configTests[platform][name].proj for every platform and suite.
Configs == [Platforms \X SuiteNames -> Projs]

\* Values of the --use-sdk argument: absent, empty, or a version.
TiSdks == {Undefined, "", "7.0.0"}

\* What a tiapp.xml can hold: the list of its <sdk-version> elements' texts
\* (none, an empty element, or one naming a version).
XmlContents == {<<>>, <<"">>, <<"6.0.0">>}

\* Exit codes of an appc process.
ExitCodes == {0, 1}

SeqsUpTo(S, n) == UNION {[1..k -> S] : k \in 0..n}

VARIABLES
    \* ---- buildTestApps
    suites,       \* the target list (argument)
    tiSdk,        \* the --use-sdk argument
    moreLogs,     \* the --more-logs argument
    configTests,  \* the required configuration: <<platform, name>> -> proj
    p,            \* where the promise chain stands
    cur,          \* index of the last target whose reactions have begun
    tiappMod,     \* keys already marked modified
    changeCalls,  \* every call of change(): [idx, file, ok]
    fsWrites,     \* every fs.writeFileSync: [file, xml]
    procs,        \* every appc process spawned: [cmd, idx, platform, dir, state]
    outLeft,      \* 'data' events the spawned processes may still deliver
    printed,      \* spawnCb has logged a chunk
    lastExit,     \* exit code of the last process that exited (-1: none)
    doneCalls     \* how often done() was invoked

buildVars == <<suites, tiSdk, moreLogs, configTests, p, cur, tiappMod,
               changeCalls, fsWrites, procs, outLeft, printed, lastExit,
               doneCalls>>

VARIABLES
    \* ---- runAppium
    server,       \* the server argument: its host (the port is fixed)
    appiumProc,   \* the module's appiumProc: "null", "running" or "exited"
    received,     \* the stdout chunks delivered so far, oldest first
    appiumDone,   \* how often runAppium's done() was invoked
    shutLogged,   \* how often 'Appium server shutting down ...' was logged
    exitLogged    \* 'DONE' was logged

appiumVars == <<server, appiumProc, received, appiumDone, shutLogged,
                exitLogged>>

VARIABLES
    \* ---- launchGeny
    genyDevice,   \* the device name (argument), a string of characters
    vmsLeft,      \* lines of 'VBoxManage list vms' not yet delivered
    output,       \* the lines accumulated by the stdout 'data' handler
    listVmsCmd,   \* "null", "running" or "exited"
    g,            \* where launchGeny's promise chain stands
    playerPid,    \* the module's playerPid (-1: no player spawned)
    logExist,     \* genymotion-player.log exists
    playerLog,    \* its lines, oldest first
    changed,      \* the file changed since the watcher last looked
    watching,     \* fs.watchFile is installed
    streams,      \* open read streams: lines each has consumed
    now,          \* Date.now(), in ms
    lastScan,     \* the last 'data' scan: <<[lines, file, at, resolved, final]>>
    resolveCalls, \* how often the watch's resolve() was called
    unwatchCalls, \* how often fs.unwatchFile was called
    genyDone,     \* how often done() was invoked
    genyStop      \* how often stop(err) was invoked

genyVars == <<genyDevice, vmsLeft, output, listVmsCmd, g, playerPid, logExist,
              playerLog, changed, watching, streams, now, lastScan,
              resolveCalls, unwatchCalls, genyDone, genyStop>>

VARIABLES
    \* ---- transform
    appConfig,    \* the required configuration, as Object.keys lists it:
                  \* <<[platform, suites]>>, each `suites` a list of keys
    suiteArg,     \* the --suites argument, a string (<<>>: absent or empty)
    platformArg,  \* the --platform argument, a string (<<>>: absent or empty)
    fsPaths,      \* the paths below ui-tests/<app> that fs.statSync finds
    tr,           \* where transform stands
    filesLeft,    \* the files files.forEach has not visited yet
    resolved,     \* transform's `suites`: the targets pushed so far
    errLog        \* what logger.error was called with: <<[kind, file]>>

transformVars == <<appConfig, suiteArg, platformArg, fsPaths, tr, filesLeft,
                   resolved, errLog>>

VARIABLES
    \* ---- createTests
    testSuites,           \* the target list of the last call (argument)
    testDevices,          \* configTests[platform][name].testDevices
    desiredCapabilities,  \* configTests[platform].desiredCapabilities, the
                          \* object the required module holds (cached)
    baseBefore,           \* desiredCapabilities as it was before the first call
    ct,                   \* where the caller of createTests stands
    listOfTests,          \* the list the last call returned
    createCalls           \* calls of createTests so far

createVars == <<testSuites, testDevices, desiredCapabilities, baseBefore, ct,
                listOfTests, createCalls>>

vars == <<buildVars, appiumVars, genyVars, transformVars, createVars>>

\* ------------------------------------------------- buildTestApps: helpers
\* (variant: only undefined counts as absent, as `tiSdk === undefined` would)
FalsyStrict(v) == v = Undefined
\* `if (!tiSdk)`: undefined and the empty string are falsy.
Falsy(v) == v = Undefined \/ v = ""

\* configTests[targetSuite.platform][targetSuite.name].proj
TiProj(t) == configTests[<<t.platform, t.name>>]

\* getAbsolutePath(app, path.join(targetSuite.name, tiProj)): the project
\* directory, as its two path segments below ui-tests/<app>.
TiProjDir(t) == <<t.name, TiProj(t)>>

\* The key under which tiappMod remembers a patched descriptor.
TiappModKey(t) == TiProj(t)

\* xml.match(/<sdk-version>.+<\/sdk-version>/g): the elements with a text
\* of at least one character, in order (null, modelled as <<>>, if none).
HasText(text) == text # ""
SdkMatches(xml) == SelectSeq(xml, HasText)

\* xml.replace(oldSdkXml, newSdkXml): the first occurrence of the matched
\* element becomes <sdk-version>${tiSdk}</sdk-version>.
ReplaceSdk(xml, oldSdk, sdk) ==
    LET i == CHOOSE k \in DOMAIN xml :
                 /\ xml[k] = oldSdk
                 /\ \A j \in 1..(k - 1) : xml[j] # oldSdk
    IN [xml EXCEPT ![i] = sdk]

\* (variant: appc() calling next() right after the spawn, so that the chain
\* moves on without waiting for the process)
PcAfterSpawnNoWait(step) ==
    CASE step = "select" -> IF Len(suites) = 0 THEN "finish" ELSE "patch"
      [] step = "clean" -> "spawnBuild"
      [] step = "build" -> IF cur < Len(suites) THEN "patch" ELSE "finish"
\* The promise appc() is wrapped in settles when its next() is called: on
\* the process's 'exit' event.  So after a spawn the chain waits.
PcAfterSpawn(step) ==
    CASE step = "select" -> "awaitSelect"
      [] step = "clean" -> "awaitClean"
      [] step = "build" -> "awaitBuild"

\* (variant: a chain that leaves out the last target)
PcAfterExitEarlyDone(pc) ==
    CASE pc = "awaitSelect" -> IF Len(suites) = 0 THEN "finish" ELSE "patch"
      [] pc = "awaitClean" -> "spawnBuild"
      [] pc = "awaitBuild" -> IF cur + 1 < Len(suites) THEN "patch" ELSE "finish"
\* The reaction that follows each step's resolution, as the chain was built
\* by suites.forEach: patch, clean, build per target, then done.
PcAfterExit(pc) ==
    CASE pc = "awaitSelect" -> IF Len(suites) = 0 THEN "finish" ELSE "patch"
      [] pc = "awaitClean" -> "spawnBuild"
      [] pc = "awaitBuild" -> IF cur < Len(suites) THEN "patch" ELSE "finish"

\* (variant: a chain that goes from the patch straight to the build)
PcAfterPatchBuildFirst == "spawnBuild"
\* The reaction after the patch reaction: spawn clean.
PcAfterPatch == "spawnClean"

\* A promise reaction is queued, or a rejection waits for the runtime's
\* unhandled-rejection check: either runs before any event handler.
MicrotaskPending ==
    p \in {"patch", "spawnClean", "spawnBuild", "finish", "rejected"}

Proc(cmd, idx, platform, dir) ==
    [cmd |-> cmd, idx |-> idx, platform |-> platform, dir |-> dir,
     state |-> "running"]

NoDir == <<"", "">>

\* ------------------------------------------------------- transform: data
\* A string is the sequence of its characters.
Sep == "/"
Comma == ","
DotJs == <<".", "j", "s">>
Login == <<"l", "o", "g", "i", "n">>
Signup == <<"s", "i", "g", "n", "u", "p">>
Ios == <<"i", "o", "s">>
Android == <<"a", "n", "d", "r", "o", "i", "d">>
Windows == <<"w", "i", "n", "d", "o", "w", "s">>
Web == <<"w", "e", "b">>

\* The reserved key 'desiredCapabilities'.
DesiredCapKey == <<"d", "e", "s", "i", "r", "e", "d", "C", "a", "p", "a", "b",
                   "i", "l", "i", "t", "i", "e", "s">>

\* `${suite}${path.sep}${platform}.js`
SuiteFile(suite, platform) == suite \o <<Sep>> \o platform \o DotJs

\* Object.keys(configTests): the platforms of a configuration, in order.
PlatformKeyLists == {<<>>, <<Ios>>, <<Ios, Android>>, <<Android, Ios>>}

\* Object.keys(configTests[platform]): the reserved key and the suites.
SuiteKeyLists == {<<DesiredCapKey>>, <<DesiredCapKey, Login>>,
                  <<Login, DesiredCapKey, Signup>>}

AppConfigs ==
    UNION {{[i \in 1..Len(keys) |-> [platform |-> keys[i], suites |-> f[i]]] :
               f \in [1..Len(keys) -> SuiteKeyLists]} :
           keys \in PlatformKeyLists}

\* Values of --suites: absent, one file, one file and a trailing comma, a
\* file of an unsupported platform, a suite's directory, two files.
SuiteArgs == {<<>>,
              SuiteFile(Login, Ios),
              SuiteFile(Login, Ios) \o <<Comma>>,
              SuiteFile(Login, Web) \o <<Comma>>,
              Login \o <<Comma>>,
              SuiteFile(Login, Ios) \o <<Comma>> \o SuiteFile(Signup, Android)}

\* Values of --platform.
PlatformArgs == {<<>>, Ios, Android, Windows}

\* Paths below ui-tests/<app> that may exist: suite files, a suite's
\* directory, and the empty path, which path.join(TEST_DIR, appArg, '')
\* makes the directory ui-tests/<app> itself.
SuitePaths == {<<>>, Login, SuiteFile(Login, Ios), SuiteFile(Login, Android),
               SuiteFile(Signup, Ios), SuiteFile(Signup, Android),
               SuiteFile(Login, Web)}

\* What statSync can find: nothing (the working directory is not the
\* package's), or the directory ui-tests/<app> and some of the paths below
\* it, a file only with the directory it is in.
FsStates ==
    {S \in SUBSET SuitePaths :
        \/ S = {}
        \/ /\ <<>> \in S
           /\ (S \cap {SuiteFile(Login, Ios), SuiteFile(Login, Android),
                        SuiteFile(Login, Web)} # {}) => Login \in S}

\* ---------------------------------------------------- transform: helpers
RECURSIVE Flatten(_)
Flatten(seqs) ==
    IF seqs = <<>> THEN <<>> ELSE Head(seqs) \o Flatten(Tail(seqs))

\* The (platform, key) pairs the two nested Object.keys(...).forEach visit.
ConfigPairs(cfg) ==
    Flatten([i \in 1..Len(cfg) |->
                [j \in 1..Len(cfg[i].suites) |->
                    <<cfg[i].platform, cfg[i].suites[j]>>]])

\* suite !== 'desiredCapabilities' && (!platformArg || platformArg === platform)
PairSelected(pair, platform) ==
    /\ pair[2] # DesiredCapKey
    /\ (platform = <<>> \/ platform = pair[1])

\* What the loops append to suiteFiles: `${suite}/${platform}.js,` for
\* every selected pair.
ConfigSuiteFiles(cfg, platform) ==
    LET pairs == SelectSeq(ConfigPairs(cfg),
                           LAMBDA pair : PairSelected(pair, platform))
    IN Flatten([k \in 1..Len(pairs) |->
                   SuiteFile(pairs[k][2], pairs[k][1]) \o <<Comma>>])

\* String.prototype.slice(0, end): a negative end counts from the end.
SliceTo(s, end) ==
    LET e == IF end < 0
             THEN (IF Len(s) + end < 0 THEN 0 ELSE Len(s) + end)
             ELSE (IF end > Len(s) THEN Len(s) ELSE end)
    IN SubSeq(s, 1, e)

\* String.prototype.split(separator): at least one piece, '' included.
RECURSIVE Split(_, _)
Split(s, ch) ==
    IF \A i \in DOMAIN s : s[i] # ch
    THEN <<s>>
    ELSE LET i == CHOOSE k \in DOMAIN s :
                      /\ s[k] = ch
                      /\ \A j \in 1..(k - 1) : s[j] # ch
         IN <<SubSeq(s, 1, i - 1)>> \o Split(SubSeq(s, i + 1, Len(s)), ch)

\* Lines 63-80: the file list transform goes through.  The configuration's
\* files are appended to suiteArg as it is, the last character is cut off,
\* and the rest is split at the commas.
SuiteFiles(arg, cfg, platform) ==
    LET suiteFiles == arg \o ConfigSuiteFiles(cfg, platform)
    IN Split(SliceTo(suiteFiles, Len(suiteFiles) - 1), Comma)

\* (variant: a stat that never fails)
StatSyncAlways(file) == TRUE
\* fs.statSync(path.join(TEST_DIR, appArg, file)) does not throw.
StatSync(file) == file \in fsPaths

\* platform !== 'ios' && platform !== 'android' && platform !== 'windows'
NotSupported(platform) == platform \notin {Ios, Android, Windows}

\* The target pushed for a file: abs is getAbsolutePath(appArg, file),
\* kept as the path below ui-tests/<app>.
TargetOf(file, suite, platform) ==
    [abs |-> file, name |-> suite, platform |-> platform]

\* ----------------------------------------------------- createTests: data
\* Target lists handed to createTests at most this long, and calls of
\* createTests on one loaded configuration at most this many.
MaxCreateTargets == 2
MaxCalls == 2

\* A transform() target as createTests reads it: abs is the suite file
\* <name>/<platform>.js below ui-tests/<app>.
CreateTargets ==
    {[abs |-> <<tg.name, tg.platform>>, name |-> tg.name,
      platform |-> tg.platform] : tg \in Targets}

\* Two configurations: one project shared by every suite, and one project
\* per suite name.
ProjConfigs ==
    {[pr \in Platforms \X SuiteNames |-> "AppA"],
     [pr \in Platforms \X SuiteNames |->
         IF pr[2] = "login" THEN "AppA" ELSE "AppB"]}

\* The devices a configuration can declare for a suite of a platform.
DeviceCatalog(platform) ==
    IF platform = "ios"
    THEN <<[deviceName |-> "iPhone 7", platformVersion |-> "10.3"],
           [deviceName |-> "iPhone 8", platformVersion |-> "11.0"]>>
    ELSE <<[deviceName |-> "Nexus 5", platformVersion |-> "6.0"],
           [deviceName |-> "Pixel", platformVersion |-> "7.1"]>>

\* configSuite.testDevices: none, one or two devices of the catalog.
DeviceLists(platform) ==
    {SubSeq(DeviceCatalog(platform), 1, k) :
        k \in 0..Len(DeviceCatalog(platform))}

TestDevices ==
    {f \in [Platforms \X SuiteNames ->
               DeviceLists("ios") \cup DeviceLists("android")] :
        \A pr \in Platforms \X SuiteNames : f[pr] \in DeviceLists(pr[1])}

\* configSuite.appPackage and configSuite.appActivity (android suites).
AppPackage(name) ==
    IF name = "login" THEN "com.example.login" ELSE "com.example.signup"
AppActivity(name) ==
    IF name = "login" THEN ".LoginActivity" ELSE ".SignupActivity"

\* An absent path-valued property.
NoPath == <<>>

\* configTests[platform].desiredCapabilities as the configuration file
\* declares it: the defaults, and none of the keys createTests sets.
BaseCapabilities ==
    [platform \in Platforms |->
        [automationName |-> IF platform = "ios" THEN "XCUITest" ELSE "Appium",
         platformName |-> Undefined,
         app |-> NoPath,
         appPackage |-> Undefined,
         appActivity |-> Undefined,
         deviceName |-> Undefined,
         platformVersion |-> Undefined]]

\* -------------------------------------------------- createTests: helpers
\* path.join(targetSuite.name, configSuite.proj, 'build'), as path segments.
TiBuildDir(name, proj) == <<name, proj, "build">>

\* The built app below ui-tests/<app>: the last segment is <proj>.app or
\* <proj>.apk.
IosApp(name, proj) ==
    TiBuildDir(name, proj) \o
    <<"iphone", "build", "Products", "Debug-iphonesimulator", <<proj, ".app">>>>
AndroidApk(name, proj) ==
    TiBuildDir(name, proj) \o <<"android", "bin", <<proj, ".apk">>>>

\* Lines 352-383: the properties createTests sets on desiredCap for a target.
Enriched(desiredCap, tg, proj) ==
    CASE tg.platform = "ios" ->
            [desiredCap EXCEPT !.platformName = "iOS",
                               !.app = IosApp(tg.name, proj)]
      [] tg.platform = "android" ->
            [desiredCap EXCEPT !.platformName = "Android",
                               !.appPackage = AppPackage(tg.name),
                               !.appActivity = AppActivity(tg.name),
                               !.app = AndroidApk(tg.name, proj)]
      [] OTHER ->
            [desiredCap EXCEPT !.platformName = "Windows"]

\* (variant: the copy gets the device's name only)
NewDesiresNameOnly(desiredCap, device) ==
    [desiredCap EXCEPT !.deviceName = device.deviceName]
\* Object.assign({}, desiredCap) with deviceName and platformVersion set.
NewDesires(desiredCap, device) ==
    [desiredCap EXCEPT !.deviceName = device.deviceName,
                       !.platformVersion = device.platformVersion]

\* configSuite.testDevices.forEach: one {suite, cap} per device.
TestsOf(tg, desiredCap, devices) ==
    [k \in 1..Len(devices) |->
        [suite |-> tg.abs, cap |-> NewDesires(desiredCap, devices[k])]]

\* suites.forEach: desiredCap is the configuration's own object, so what a
\* target sets on it stays set; the result is the objects' final state and
\* the list of tests.
RECURSIVE ForEachSuite(_, _, _, _, _)
ForEachSuite(targets, caps, tests, projs, devices) ==
    IF targets = <<>>
    THEN [caps |-> caps, tests |-> tests]
    ELSE LET tg == Head(targets)
             pr == <<tg.platform, tg.name>>
             desiredCap == Enriched(caps[tg.platform], tg, projs[pr])
         IN ForEachSuite(Tail(targets),
                         [caps EXCEPT ![tg.platform] = desiredCap],
                         tests \o TestsOf(tg, desiredCap, devices[pr]),
                         projs, devices)

\* ------------------------------------------------------- runAppium: data
\* Hosts of the server argument: a name, and an address (whose dots are
\* wildcards once interpolated in the pattern).
Hosts == {"localhost", "127.0.0.1"}

\* The lines a stdout chunk is made of, by what the two tests see in them:
\*   startedAny   ends with 'started on 0.0.0.0:<port>'
\*   startedHost  ends with 'started on <server.host>:<port>'
\*   startedLike  ends with 'started on <h>:<port>', h being server.host
\*                with other characters in the place of its dots
\*   startedMid   holds 'started on 0.0.0.0:<port>' followed by more text
\*   shutdown     '[Appium] Received SIGTERM - shutting down'
\*   other        anything else
LineKinds == {"startedAny", "startedHost", "startedLike", "startedMid",
              "shutdown", "other"}

\* A chunk: one line or two (output.toString().trim() has dropped the
\* surrounding white space).
Chunks == [1..1 -> LineKinds] \cup [1..2 -> LineKinds]

\* The pattern 'started on (0\.0\.0\.0|<host>)\:<port>$' on one line that
\* ends the text: the host is interpolated unescaped.
LineEndsStarted(line, host) ==
    \/ line \in {"startedAny", "startedHost"}
    \/ line = "startedLike" /\ host = "127.0.0.1"

\* new RegExp(regStr, 'g').test(line): no 'm' flag, so $ is the end of the
\* chunk, and only the chunk's last line can match.
IsRunning(chunk, host) == LineEndsStarted(chunk[Len(chunk)], host)

\* line === '[Appium] Received SIGTERM - shutting down'
IsShutDown(chunk) == chunk = <<"shutdown">>

AppiumInit ==
    /\ server \in Hosts
    /\ appiumProc = "null"
    /\ received = <<>>
    /\ appiumDone = 0
    /\ shutLogged = 0
    /\ exitLogged = FALSE
    \* buildTestApps is not called
    /\ suites = <<>>
    /\ tiSdk = Undefined
    /\ moreLogs = FALSE
    /\ configTests = [c \in Platforms \X SuiteNames |-> "AppA"]
    /\ p = "start"
    /\ cur = 0
    /\ tiappMod = {}
    /\ changeCalls = <<>>
    /\ fsWrites = <<>>
    /\ procs = <<>>
    /\ outLeft = 0
    /\ printed = FALSE
    /\ lastExit = -1
    /\ doneCalls = 0
    \* launchGeny is not called
    /\ genyDevice = <<"a", "x">>
    /\ vmsLeft = <<>>
    /\ output = <<>>
    /\ listVmsCmd = "null"
    /\ g = "start"
    /\ playerPid = -1
    /\ logExist = FALSE
    /\ playerLog = <<>>
    /\ changed = FALSE
    /\ watching = FALSE
    /\ streams = <<>>
    /\ now = 30000
    /\ lastScan = <<>>
    /\ resolveCalls = 0
    /\ unwatchCalls = 0
    /\ genyDone = 0
    /\ genyStop = 0
    \* transform is not called
    /\ appConfig = <<>>
    /\ suiteArg = <<>>
    /\ platformArg = <<>>
    /\ fsPaths = {}
    /\ tr = "start"
    /\ filesLeft = <<>>
    /\ resolved = <<>>
    /\ errLog = <<>>
    \* createTests is not called
    /\ testSuites = <<>>
    /\ testDevices = [pr \in Platforms \X SuiteNames |-> <<>>]
    /\ desiredCapabilities = BaseCapabilities
    /\ baseBefore = BaseCapabilities
    /\ ct = "idle"
    /\ listOfTests = <<>>
    /\ createCalls = 0

\* ---------------------------------------------------- runAppium: actions
\* runAppium: spawn the server and subscribe to its streams and events.
runAppium ==
    /\ appiumProc = "null"
    /\ appiumProc' = "running"
    /\ UNCHANGED <<server, received, appiumDone, shutLogged, exitLogged>>
    /\ UNCHANGED buildVars
    /\ UNCHANGED <<genyVars, transformVars, createVars>>

\* appiumProc.stdout.on('data'): done() on a chunk the pattern matches,
\* a log line on the shutdown message.
appiumStdout ==
    /\ appiumProc # "null"
    /\ Len(received) < MaxChunks
    /\ \E chunk \in Chunks :
         /\ received' = Append(received, chunk)
         /\ appiumDone' = IF IsRunning(chunk, server)
                           THEN appiumDone + 1 ELSE appiumDone
         /\ shutLogged' = IF IsShutDown(chunk)
                           THEN shutLogged + 1 ELSE shutLogged
    /\ UNCHANGED <<server, appiumProc, exitLogged>>
    /\ UNCHANGED buildVars
    /\ UNCHANGED <<genyVars, transformVars, createVars>>

\* appiumProc.on('exit'): logs 'DONE'.
appiumExit ==
    /\ appiumProc = "running"
    /\ appiumProc' = "exited"
    /\ exitLogged' = TRUE
    /\ UNCHANGED <<server, received, appiumDone, shutLogged>>
    /\ UNCHANGED buildVars
    /\ UNCHANGED <<genyVars, transformVars, createVars>>

AppiumNext ==
    \/ runAppium
    \/ appiumStdout
    \/ appiumExit

\* --------------------------------------------------- buildTestApps: Init
BuildInit ==
    /\ suites \in SeqsUpTo(Targets, MaxTargets)
    /\ tiSdk \in TiSdks
    /\ moreLogs \in BOOLEAN
    /\ configTests \in Configs
    /\ p = "start"
    /\ cur = 0
    /\ tiappMod = {}
    /\ changeCalls = <<>>
    /\ fsWrites = <<>>
    /\ procs = <<>>
    /\ outLeft = 0
    /\ printed = FALSE
    /\ lastExit = -1
    /\ doneCalls = 0
    \* runAppium is not called
    /\ server = "localhost"
    /\ appiumProc = "null"
    /\ received = <<>>
    /\ appiumDone = 0
    /\ shutLogged = 0
    /\ exitLogged = FALSE
    \* launchGeny is not called
    /\ genyDevice = <<"a", "x">>
    /\ vmsLeft = <<>>
    /\ output = <<>>
    /\ listVmsCmd = "null"
    /\ g = "start"
    /\ playerPid = -1
    /\ logExist = FALSE
    /\ playerLog = <<>>
    /\ changed = FALSE
    /\ watching = FALSE
    /\ streams = <<>>
    /\ now = 30000
    /\ lastScan = <<>>
    /\ resolveCalls = 0
    /\ unwatchCalls = 0
    /\ genyDone = 0
    /\ genyStop = 0
    \* transform is not called
    /\ appConfig = <<>>
    /\ suiteArg = <<>>
    /\ platformArg = <<>>
    /\ fsPaths = {}
    /\ tr = "start"
    /\ filesLeft = <<>>
    /\ resolved = <<>>
    /\ errLog = <<>>
    \* createTests is not called
    /\ testSuites = <<>>
    /\ testDevices = [pr \in Platforms \X SuiteNames |-> <<>>]
    /\ desiredCapabilities = BaseCapabilities
    /\ baseBefore = BaseCapabilities
    /\ ct = "idle"
    /\ listOfTests = <<>>
    /\ createCalls = 0

\* ------------------------------------------------ buildTestApps: actions
\* (a variant of buildTestApps that builds the chain on an already resolved
\* promise instead of spawning 'appc ti sdk select')
buildTestAppsNoSelect ==
    /\ p = "start"
    /\ IF Falsy(tiSdk)
       THEN /\ doneCalls' = doneCalls + 1
            /\ p' = "returned"
       ELSE /\ p' = IF Len(suites) = 0 THEN "finish" ELSE "patch"
            /\ UNCHANGED doneCalls
    /\ UNCHANGED <<suites, tiSdk, moreLogs, configTests, cur, tiappMod,
                   changeCalls, fsWrites, procs, outLeft, printed, lastExit>>
    /\ UNCHANGED appiumVars
    /\ UNCHANGED <<genyVars, transformVars, createVars>>

\* The synchronous body of buildTestApps: without tiSdk, done() and return;
\* otherwise spawn 'appc ti sdk select' and build the whole chain.
buildTestApps ==
    /\ p = "start"
    /\ IF Falsy(tiSdk)
       THEN /\ doneCalls' = doneCalls + 1
            /\ p' = "returned"
            /\ UNCHANGED <<procs, outLeft>>
       ELSE /\ procs' = <<Proc("select", 0, "", NoDir)>>
            /\ outLeft' = MaxOutput
            /\ p' = PcAfterSpawn("select")
            /\ UNCHANGED doneCalls
    /\ UNCHANGED <<suites, tiSdk, moreLogs, configTests, cur, tiappMod,
                   changeCalls, fsWrites, printed, lastExit>>
    /\ UNCHANGED appiumVars
    /\ UNCHANGED <<genyVars, transformVars, createVars>>

\* spawnCb: a 'data' event on stdout or stderr of a spawned appc process
\* (its pipes may outlive its 'exit' event).
spawnCb ==
    /\ Len(procs) > 0
    /\ outLeft > 0
    /\ ~MicrotaskPending
    /\ p # "crashed"
    /\ outLeft' = outLeft - 1
    /\ printed' = (printed \/ moreLogs)
    /\ UNCHANGED <<suites, tiSdk, moreLogs, configTests, p, cur, tiappMod,
                   changeCalls, fsWrites, procs, lastExit, doneCalls>>
    /\ UNCHANGED appiumVars
    /\ UNCHANGED <<genyVars, transformVars, createVars>>

\* (variant: an 'exit' handler that goes on after exit code 0 only and
\* rejects the step's promise otherwise)
appcExitChecked ==
    /\ p \in {"awaitSelect", "awaitClean", "awaitBuild"}
    /\ procs[Len(procs)].state = "running"
    /\ \E code \in ExitCodes :
         /\ lastExit' = code
         /\ p' = IF code = 0 THEN PcAfterExit(p) ELSE "rejected"
    /\ procs' = [procs EXCEPT ![Len(procs)].state = "exited"]
    /\ UNCHANGED <<suites, tiSdk, moreLogs, configTests, cur, tiappMod,
                   changeCalls, fsWrites, outLeft, printed, doneCalls>>
    /\ UNCHANGED appiumVars
    /\ UNCHANGED <<genyVars, transformVars, createVars>>

\* appcCmd.on('exit'): the running process exits with any code; next()
\* resolves the step's promise, whatever the code.
appcExit ==
    /\ p \in {"awaitSelect", "awaitClean", "awaitBuild"}
    /\ procs[Len(procs)].state = "running"
    /\ \E code \in ExitCodes : lastExit' = code
    /\ procs' = [procs EXCEPT ![Len(procs)].state = "exited"]
    /\ p' = PcAfterExit(p)
    /\ UNCHANGED <<suites, tiSdk, moreLogs, configTests, cur, tiappMod,
                   changeCalls, fsWrites, outLeft, printed, doneCalls>>
    /\ UNCHANGED appiumVars
    /\ UNCHANGED <<genyVars, transformVars, createVars>>

\* The first reaction of a target: patch the descriptor unless its key is
\* marked.  change() reads the file; without an <sdk-version> element
\* match() is null and [0] throws, which rejects the chain.
thenPatch ==
    /\ p = "patch"
    /\ cur' = cur + 1
    /\ LET t == suites[cur + 1]
           file == TiProjDir(t)
       IN IF TiappModKey(t) \notin tiappMod
          THEN /\ tiappMod' = tiappMod \cup {TiappModKey(t)}
               /\ \E xml \in XmlContents :
                    IF Len(SdkMatches(xml)) = 0
                    THEN /\ changeCalls' = Append(changeCalls,
                               [idx |-> cur + 1, file |-> file, ok |-> FALSE])
                         /\ p' = "rejected"
                         /\ UNCHANGED fsWrites
                    ELSE /\ changeCalls' = Append(changeCalls,
                               [idx |-> cur + 1, file |-> file, ok |-> TRUE])
                         /\ fsWrites' = Append(fsWrites,
                               [file |-> file,
                                xml |-> ReplaceSdk(xml, SdkMatches(xml)[1], tiSdk)])
                         /\ p' = PcAfterPatch
          ELSE /\ p' = PcAfterPatch
               /\ UNCHANGED <<tiappMod, changeCalls, fsWrites>>
    /\ UNCHANGED <<suites, tiSdk, moreLogs, configTests, procs, outLeft,
                   printed, lastExit, doneCalls>>
    /\ UNCHANGED appiumVars
    /\ UNCHANGED <<genyVars, transformVars, createVars>>

\* The second reaction: spawn 'appc ti clean' for the target.
thenClean ==
    /\ p = "spawnClean"
    /\ LET t == suites[cur]
       IN procs' = Append(procs, Proc("clean", cur, t.platform, TiProjDir(t)))
    /\ outLeft' = MaxOutput
    /\ p' = PcAfterSpawn("clean")
    /\ UNCHANGED <<suites, tiSdk, moreLogs, configTests, cur, tiappMod,
                   changeCalls, fsWrites, printed, lastExit, doneCalls>>
    /\ UNCHANGED appiumVars
    /\ UNCHANGED <<genyVars, transformVars, createVars>>

\* The third reaction: spawn 'appc run --build-only' for the target.
thenBuild ==
    /\ p = "spawnBuild"
    /\ LET t == suites[cur]
       IN procs' = Append(procs, Proc("build", cur, t.platform, TiProjDir(t)))
    /\ outLeft' = MaxOutput
    /\ p' = PcAfterSpawn("build")
    /\ UNCHANGED <<suites, tiSdk, moreLogs, configTests, cur, tiappMod,
                   changeCalls, fsWrites, printed, lastExit, doneCalls>>
    /\ UNCHANGED appiumVars
    /\ UNCHANGED <<genyVars, transformVars, createVars>>

\* The last reaction, p.then(() => done()).
thenDone ==
    /\ p = "finish"
    /\ doneCalls' = doneCalls + 1
    /\ p' = "completed"
    /\ UNCHANGED <<suites, tiSdk, moreLogs, configTests, cur, tiappMod,
                   changeCalls, fsWrites, procs, outLeft, printed, lastExit>>
    /\ UNCHANGED appiumVars
    /\ UNCHANGED <<genyVars, transformVars, createVars>>

\* The chain ends with p.then(() => done()) and no rejection handler, and
\* buildTestApps has no callback for a failure: a rejected chain is left to
\* the runtime.  Node 10 to 14 (engines: node >= 10.0) print an
\* UnhandledPromiseRejectionWarning and go on, with done never called;
\* Node 15 and later end the process with the error.
unhandledRejection ==
    /\ p = "rejected"
    /\ p' \in {"warned", "crashed"}
    /\ UNCHANGED <<suites, tiSdk, moreLogs, configTests, cur, tiappMod,
                   changeCalls, fsWrites, procs, outLeft, printed, lastExit,
                   doneCalls>>
    /\ UNCHANGED appiumVars
    /\ UNCHANGED <<genyVars, transformVars, createVars>>

BuildNext ==
    \/ buildTestApps
    \/ unhandledRejection
    \/ spawnCb
    \/ appcExit
    \/ thenPatch
    \/ thenClean
    \/ thenBuild
    \/ thenDone

SpecBuild == BuildInit /\ [][BuildNext]_vars

BuildFairInit ==
    /\ suites \in SeqsUpTo(Targets, MaxTargets)
    /\ tiSdk \in TiSdks
    /\ moreLogs \in BOOLEAN
    /\ configTests \in ProjConfigs
    /\ p = "start"
    /\ cur = 0
    /\ tiappMod = {}
    /\ changeCalls = <<>>
    /\ fsWrites = <<>>
    /\ procs = <<>>
    /\ outLeft = 0
    /\ printed = FALSE
    /\ lastExit = -1
    /\ doneCalls = 0
    \* runAppium is not called
    /\ server = "localhost"
    /\ appiumProc = "null"
    /\ received = <<>>
    /\ appiumDone = 0
    /\ shutLogged = 0
    /\ exitLogged = FALSE
    \* launchGeny is not called
    /\ genyDevice = <<"a", "x">>
    /\ vmsLeft = <<>>
    /\ output = <<>>
    /\ listVmsCmd = "null"
    /\ g = "start"
    /\ playerPid = -1
    /\ logExist = FALSE
    /\ playerLog = <<>>
    /\ changed = FALSE
    /\ watching = FALSE
    /\ streams = <<>>
    /\ now = 30000
    /\ lastScan = <<>>
    /\ resolveCalls = 0
    /\ unwatchCalls = 0
    /\ genyDone = 0
    /\ genyStop = 0
    \* transform is not called
    /\ appConfig = <<>>
    /\ suiteArg = <<>>
    /\ platformArg = <<>>
    /\ fsPaths = {}
    /\ tr = "start"
    /\ filesLeft = <<>>
    /\ resolved = <<>>
    /\ errLog = <<>>
    \* createTests is not called
    /\ testSuites = <<>>
    /\ testDevices = [pr \in Platforms \X SuiteNames |-> <<>>]
    /\ desiredCapabilities = BaseCapabilities
    /\ baseBefore = BaseCapabilities
    /\ ct = "idle"
    /\ listOfTests = <<>>
    /\ createCalls = 0

\* The same with the scheduling the runtime gives: the call is made, every
\* queued reaction runs, pending output is delivered, and (the hypothesis
\* of a run that is not stuck in a child process) every spawned process
\* exits.
\* The runs start from the configurations of ProjConfigs.
SpecBuildFair ==
    /\ BuildFairInit
    /\ [][BuildNext]_vars
    /\ WF_vars(buildTestApps)
    /\ WF_vars(unhandledRejection)
    /\ WF_vars(spawnCb)
    /\ WF_vars(appcExit)
    /\ WF_vars(thenPatch)
    /\ WF_vars(thenClean)
    /\ WF_vars(thenBuild)
    /\ WF_vars(thenDone)

SpecAppium == AppiumInit /\ [][AppiumNext]_vars


\* ------------------------------------------------------ launchGeny: data
\* Device names, as strings over a small alphabet: "a." and "ax".  The dot
\* is a character of many Genymotion names ('... - 6.0.0 - API 23 ...').
DeviceNames == {<<"a", ".">>, <<"a", "x">>}

\* 'VBoxManage list vms' prints one line '"<name>" {<uuid>}' per vm; a
\* line is modelled by its name.
VmLists == SeqsUpTo(DeviceNames, 2)

\* One pattern character against one text character: '.' matches any
\* character (names hold no line terminator), another character itself.
PatChar(c, d) == c = "." \/ c = d

\* new RegExp(`^"${genyDevice}"`, 'm') on one line '"<name>" {...}': the
\* quote, the device name read as a pattern, the closing quote.
LineMatches(pattern, name) ==
    /\ Len(name) = Len(pattern)
    /\ \A i \in 1..Len(pattern) : PatChar(pattern[i], name[i])

\* regExp.test(output.trim()): with the 'm' flag ^ is the start of any line.
DeviceExist(out, device) ==
    \E k \in DOMAIN out : LineMatches(device, out[k])

\* The pid of the spawned player.
PlayerPid == 4242

\* Clock readings (ms): the launch, 3 s and 10 s later, 1 ms after that.
Instants == {30000, 33000, 40000, 40001}

\* The freshness window of the log watch: deltaTime <= 10000.
FreshWindowMs == 10000

\* A log line: a 'Device booted in N ms' line with its timestamp (seconds;
\* the log prints no fraction), or any other line.
BootLine(ts) == [kind |-> "boot", ts |-> ts]
OtherLine == [kind |-> "other", ts |-> -1]

\* What genymotion-player.log can hold before the launch: nothing, a line
\* of an earlier boot (30 s before the launch), or another line.
OldLogs == {<<>>, <<BootLine(0)>>, <<OtherLine>>}

\* The lines the player can append at a clock reading.
NewLines(t) == {OtherLine, BootLine(t \div 1000)}

\* output.toString().trim().match(/<timestamp> \[Genymotion Player:\d+\]
\* \[debug\] Device booted in \d+ ms/g): the boot lines of the chunk, in
\* order (null, modelled as <<>>, when there is none).
IsBootLine(line) == line.kind = "boot"
Matches(chunk) == SelectSeq(chunk, IsBootLine)

\* matches[matches.length - 1]
LastLine(matches) == matches[Len(matches)]

\* Date.parse(dateTime) of the line's timestamp: ms since the epoch.
DateParse(line) == line.ts * 1000

\* /Device booted in .+/g.test(lastLine)
DeviceBootedIn(line) == line.kind = "boot"

\* (variant: a window of 100000 ms)
WithinWindowWide(deltaTime) == deltaTime <= 10 * FreshWindowMs
\* deltaTime <= 10000
WithinWindow(deltaTime) == deltaTime <= FreshWindowMs

\* The test of one 'data' chunk: resolve or not.
ChunkResolves(chunk, t) ==
    LET matches == Matches(chunk)
    IN /\ Len(matches) > 0
       /\ WithinWindow(t - DateParse(LastLine(matches)))
       /\ DeviceBootedIn(LastLine(matches))

\* (variant: a resolution that leaves the watch installed)
WatchedAfterResolveKept == TRUE
\* fs.unwatchFile(playerLog) before resolve(): the watch is no longer
\* installed.
WatchedAfterResolve == FALSE

\* (variant: a handler that starts the done reaction on every resolution,
\* as a direct call of done() in the 'data' handler would)
AfterResolveAgain(pc) == "ready"
\* resolve() of the watch's promise: the first call settles it and queues
\* the .then(() => done()) reaction; a later call does nothing.
AfterResolve(pc) == IF pc = "watching" THEN "ready" ELSE pc

\* No handler can run: a promise reaction is queued, or the stat loop of
\* the launch reaction is spinning.
GenyBusy == g \in {"launch", "reject", "ready", "statLoop"}

RemoveAt(seq, i) == SubSeq(seq, 1, i - 1) \o SubSeq(seq, i + 1, Len(seq))

\* ------------------------------------------------------ launchGeny: Init
GenyInit ==
    /\ genyDevice \in DeviceNames
    /\ vmsLeft \in VmLists
    /\ output = <<>>
    /\ listVmsCmd = "null"
    /\ g = "start"
    /\ playerPid = -1
    /\ logExist \in BOOLEAN
    /\ playerLog \in IF logExist THEN OldLogs ELSE {<<>>}
    /\ changed = FALSE
    /\ watching = FALSE
    /\ streams = <<>>
    /\ now = 30000
    /\ lastScan = <<>>
    /\ resolveCalls = 0
    /\ unwatchCalls = 0
    /\ genyDone = 0
    /\ genyStop = 0
    \* buildTestApps is not called
    /\ suites = <<>>
    /\ tiSdk = Undefined
    /\ moreLogs = FALSE
    /\ configTests = [c \in Platforms \X SuiteNames |-> "AppA"]
    /\ p = "start"
    /\ cur = 0
    /\ tiappMod = {}
    /\ changeCalls = <<>>
    /\ fsWrites = <<>>
    /\ procs = <<>>
    /\ outLeft = 0
    /\ printed = FALSE
    /\ lastExit = -1
    /\ doneCalls = 0
    \* runAppium is not called
    /\ server = "localhost"
    /\ appiumProc = "null"
    /\ received = <<>>
    /\ appiumDone = 0
    /\ shutLogged = 0
    /\ exitLogged = FALSE
    \* transform is not called
    /\ appConfig = <<>>
    /\ suiteArg = <<>>
    /\ platformArg = <<>>
    /\ fsPaths = {}
    /\ tr = "start"
    /\ filesLeft = <<>>
    /\ resolved = <<>>
    /\ errLog = <<>>
    \* createTests is not called
    /\ testSuites = <<>>
    /\ testDevices = [pr \in Platforms \X SuiteNames |-> <<>>]
    /\ desiredCapabilities = BaseCapabilities
    /\ baseBefore = BaseCapabilities
    /\ ct = "idle"
    /\ listOfTests = <<>>
    /\ createCalls = 0

\* --------------------------------------------------- launchGeny: actions
\* launchGeny: spawn 'VBoxManage list vms' and build the chain.
launchGeny ==
    /\ g = "start"
    /\ listVmsCmd' = "running"
    /\ g' = "listing"
    /\ UNCHANGED <<genyDevice, vmsLeft, output, playerPid, logExist,
                   playerLog, changed, watching, streams, now, lastScan,
                   resolveCalls, unwatchCalls, genyDone, genyStop>>
    /\ UNCHANGED <<buildVars, appiumVars, transformVars, createVars>>

\* listVmsCmd.stdout.on('data'): output += chunk.
listVmsData ==
    /\ g = "listing"
    /\ Len(vmsLeft) > 0
    /\ output' = Append(output, Head(vmsLeft))
    /\ vmsLeft' = Tail(vmsLeft)
    /\ UNCHANGED <<genyDevice, listVmsCmd, g, playerPid, logExist, playerLog,
                   changed, watching, streams, now, lastScan, resolveCalls,
                   unwatchCalls, genyDone, genyStop>>
    /\ UNCHANGED <<buildVars, appiumVars, transformVars, createVars>>

\* listVmsCmd.on('exit'): test what was accumulated so far (the pipe may
\* still hold output the 'data' handler has not seen), reject or resolve.
listVmsExit ==
    /\ g = "listing"
    /\ listVmsCmd = "running"
    /\ listVmsCmd' = "exited"
    /\ g' = IF DeviceExist(output, genyDevice) THEN "launch" ELSE "reject"
    /\ UNCHANGED <<genyDevice, vmsLeft, output, playerPid, logExist,
                   playerLog, changed, watching, streams, now, lastScan,
                   resolveCalls, unwatchCalls, genyDone, genyStop>>
    /\ UNCHANGED <<buildVars, appiumVars, transformVars, createVars>>

\* .catch((err) => stop(err))
catchStop ==
    /\ g = "reject"
    /\ genyStop' = genyStop + 1
    /\ g' = "stopped"
    /\ UNCHANGED <<genyDevice, vmsLeft, output, listVmsCmd, playerPid,
                   logExist, playerLog, changed, watching, streams, now,
                   lastScan, resolveCalls, unwatchCalls, genyDone>>
    /\ UNCHANGED <<buildVars, appiumVars, transformVars, createVars>>

\* The launch reaction, up to its stat loop: spawn the player.
thenLaunch ==
    /\ g = "launch"
    /\ playerPid' = PlayerPid
    /\ g' = "statLoop"
    /\ UNCHANGED <<genyDevice, vmsLeft, output, listVmsCmd, logExist,
                   playerLog, changed, watching, streams, now, lastScan,
                   resolveCalls, unwatchCalls, genyDone, genyStop>>
    /\ UNCHANGED <<buildVars, appiumVars, transformVars, createVars>>

\* (variant: a stat loop that gives up, rejecting the launch, once the
\* clock has reached the end of the freshness window)
statSyncTimeout ==
    /\ g = "statLoop"
    /\ IF logExist
       THEN /\ watching' = TRUE
            /\ g' = "watching"
            /\ output' = <<>>
            /\ vmsLeft' = <<>>
       ELSE /\ g' = IF now >= 30000 + FreshWindowMs THEN "reject" ELSE g
            /\ UNCHANGED <<watching, output, vmsLeft>>
    /\ UNCHANGED <<genyDevice, listVmsCmd, playerPid, logExist, playerLog,
                   changed, streams, now, lastScan, resolveCalls,
                   unwatchCalls, genyDone, genyStop>>
    /\ UNCHANGED <<buildVars, appiumVars, transformVars, createVars>>

\* One turn of `while (!logExist)`: fs.statSync throws while the file is
\* missing; once it succeeds the reaction installs fs.watchFile and ends.
\* (The list-vms closure is unreachable from here on: its output is dropped.)
statSync ==
    /\ g = "statLoop"
    /\ IF logExist
       THEN /\ watching' = TRUE
            /\ g' = "watching"
            /\ output' = <<>>
            /\ vmsLeft' = <<>>
       ELSE UNCHANGED <<watching, g, output, vmsLeft>>
    /\ UNCHANGED <<genyDevice, listVmsCmd, playerPid, logExist, playerLog,
                   changed, streams, now, lastScan, resolveCalls,
                   unwatchCalls, genyDone, genyStop>>
    /\ UNCHANGED <<buildVars, appiumVars, transformVars, createVars>>

\* The player creates its log file.
playerCreatesLog ==
    /\ playerPid # -1
    /\ ~logExist
    /\ logExist' = TRUE
    /\ UNCHANGED <<genyDevice, vmsLeft, output, listVmsCmd, g, playerPid,
                   playerLog, changed, watching, streams, now, lastScan,
                   resolveCalls, unwatchCalls, genyDone, genyStop>>
    /\ UNCHANGED <<buildVars, appiumVars, transformVars, createVars>>

\* The player appends a line to its log, stamped with the current second.
playerWrites ==
    /\ playerPid # -1
    /\ logExist
    /\ Len(playerLog) < MaxLog
    /\ \E line \in NewLines(now) : playerLog' = Append(playerLog, line)
    /\ changed' = TRUE
    /\ UNCHANGED <<genyDevice, vmsLeft, output, listVmsCmd, g, playerPid,
                   logExist, watching, streams, now, lastScan, resolveCalls,
                   unwatchCalls, genyDone, genyStop>>
    /\ UNCHANGED <<buildVars, appiumVars, transformVars, createVars>>

\* Time passes.
tick ==
    /\ playerPid # -1
    /\ \E t \in Instants : t > now /\ now' = t
    /\ UNCHANGED <<genyDevice, vmsLeft, output, listVmsCmd, g, playerPid,
                   logExist, playerLog, changed, watching, streams, lastScan,
                   resolveCalls, unwatchCalls, genyDone, genyStop>>
    /\ UNCHANGED <<buildVars, appiumVars, transformVars, createVars>>

\* The fs.watchFile listener: the file changed; open a read stream on it.
watchFileListener ==
    /\ watching
    /\ changed
    /\ ~GenyBusy
    /\ Len(streams) < MaxStreams
    /\ changed' = FALSE
    /\ streams' = Append(streams, 0)
    /\ UNCHANGED <<genyDevice, vmsLeft, output, listVmsCmd, g, playerPid,
                   logExist, playerLog, watching, now, lastScan,
                   resolveCalls, unwatchCalls, genyDone, genyStop>>
    /\ UNCHANGED <<buildVars, appiumVars, transformVars, createVars>>

\* stream.on('data'): the stream delivers the next chunk of the file.  A
\* chunk is a read of up to the stream's buffer size: k whole lines and,
\* when the read ends inside the next line (cut = 1), a piece of that line,
\* whose rest opens the stream's next chunk; the pattern matches neither
\* piece.  The chunk's matches are tested; on success the file is unwatched
\* and the watch resolved (a no-op on a promise resolved before).
streamData ==
    /\ ~GenyBusy
    /\ \E i \in DOMAIN streams, k \in 0..MaxLog, cut \in 0..1 :
         LET pos == streams[i]
             chunk == SubSeq(playerLog, pos + 1, pos + k)
             hit == ChunkResolves(chunk, now)
         IN /\ k + cut >= 1
            /\ pos + k + cut <= Len(playerLog)
            /\ streams' = [streams EXCEPT ![i] = pos + k + cut]
            /\ lastScan' = <<[lines |-> chunk, file |-> playerLog, at |-> now,
                              resolved |-> hit,
                              final |-> (pos + k + cut = Len(playerLog))]>>
            /\ IF hit
               THEN /\ watching' = WatchedAfterResolve
                    /\ unwatchCalls' = unwatchCalls + 1
                    /\ resolveCalls' = resolveCalls + 1
                    /\ g' = AfterResolve(g)
               ELSE UNCHANGED <<watching, unwatchCalls, resolveCalls, g>>
    /\ UNCHANGED <<genyDevice, vmsLeft, output, listVmsCmd, playerPid,
                   logExist, playerLog, changed, now, genyDone, genyStop>>
    /\ UNCHANGED <<buildVars, appiumVars, transformVars, createVars>>

\* The stream has read to the end of the file: it ends and closes.
streamEnd ==
    /\ ~GenyBusy
    /\ \E i \in DOMAIN streams :
         /\ streams[i] = Len(playerLog)
         /\ streams' = RemoveAt(streams, i)
    /\ UNCHANGED <<genyDevice, vmsLeft, output, listVmsCmd, g, playerPid,
                   logExist, playerLog, changed, watching, now, lastScan,
                   resolveCalls, unwatchCalls, genyDone, genyStop>>
    /\ UNCHANGED <<buildVars, appiumVars, transformVars, createVars>>

\* .then(() => done())
thenGenyDone ==
    /\ g = "ready"
    /\ genyDone' = genyDone + 1
    /\ g' = "done"
    /\ UNCHANGED <<genyDevice, vmsLeft, output, listVmsCmd, playerPid,
                   logExist, playerLog, changed, watching, streams, now,
                   lastScan, resolveCalls, unwatchCalls, genyStop>>
    /\ UNCHANGED <<buildVars, appiumVars, transformVars, createVars>>

GenyNext ==
    \/ launchGeny
    \/ listVmsData
    \/ listVmsExit
    \/ catchStop
    \/ thenLaunch
    \/ statSync
    \/ playerCreatesLog
    \/ playerWrites
    \/ tick
    \/ watchFileListener
    \/ streamData
    \/ streamEnd
    \/ thenGenyDone

SpecGeny == GenyInit /\ [][GenyNext]_vars

\* ------------------------------------------------------ transform: Init
TransformInit ==
    /\ appConfig \in AppConfigs
    /\ suiteArg \in SuiteArgs
    /\ platformArg \in PlatformArgs
    /\ fsPaths \in FsStates
    /\ tr = "start"
    /\ filesLeft = <<>>
    /\ resolved = <<>>
    /\ errLog = <<>>
    \* createTests is not called
    /\ testSuites = <<>>
    /\ testDevices = [pr \in Platforms \X SuiteNames |-> <<>>]
    /\ desiredCapabilities = BaseCapabilities
    /\ baseBefore = BaseCapabilities
    /\ ct = "idle"
    /\ listOfTests = <<>>
    /\ createCalls = 0
    \* buildTestApps is not called
    /\ suites = <<>>
    /\ tiSdk = Undefined
    /\ moreLogs = FALSE
    /\ configTests = [pr \in Platforms \X SuiteNames |-> "AppA"]
    /\ p = "start"
    /\ cur = 0
    /\ tiappMod = {}
    /\ changeCalls = <<>>
    /\ fsWrites = <<>>
    /\ procs = <<>>
    /\ outLeft = 0
    /\ printed = FALSE
    /\ lastExit = -1
    /\ doneCalls = 0
    \* runAppium is not called
    /\ server = "localhost"
    /\ appiumProc = "null"
    /\ received = <<>>
    /\ appiumDone = 0
    /\ shutLogged = 0
    /\ exitLogged = FALSE
    \* launchGeny is not called
    /\ genyDevice = <<"a", "x">>
    /\ vmsLeft = <<>>
    /\ output = <<>>
    /\ listVmsCmd = "null"
    /\ g = "start"
    /\ playerPid = -1
    /\ logExist = FALSE
    /\ playerLog = <<>>
    /\ changed = FALSE
    /\ watching = FALSE
    /\ streams = <<>>
    /\ now = 30000
    /\ lastScan = <<>>
    /\ resolveCalls = 0
    /\ unwatchCalls = 0
    /\ genyDone = 0
    /\ genyStop = 0

\* --------------------------------------------------- transform: actions
\* Lines 58-80: the configuration's suite files are added to suiteFiles,
\* its last character is removed and it is split into the file list.
transform ==
    /\ tr = "start"
    /\ filesLeft' = SuiteFiles(suiteArg, appConfig, platformArg)
    /\ tr' = "forEach"
    /\ UNCHANGED <<appConfig, suiteArg, platformArg, fsPaths, resolved,
                   errLog>>
    /\ UNCHANGED <<buildVars, appiumVars, genyVars, createVars>>

\* One turn of files.forEach (lines 81-110).  A file statSync does not
\* find: logger.error and process.exit(1).  A file without a separator:
\* parts[1] is undefined and platformFile.length throws a TypeError.  A
\* platform that is not supported: logger.error and process.exit(1).
\* Otherwise a target is pushed.
filesForEach ==
    /\ tr = "forEach"
    /\ Len(filesLeft) > 0
    /\ LET file == Head(filesLeft)
           parts == Split(file, Sep)
       IN IF ~StatSync(file)
          THEN /\ errLog' = Append(errLog, [kind |-> "missing", file |-> file])
               /\ tr' = "exit"
               /\ UNCHANGED <<filesLeft, resolved>>
          ELSE IF Len(parts) < 2
          THEN /\ tr' = "threw"
               /\ UNCHANGED <<filesLeft, resolved, errLog>>
          ELSE LET suite == parts[1]
                   platformFile == parts[2]
                   platform == SliceTo(platformFile,
                                       Len(platformFile) - Len(DotJs))
               IN IF NotSupported(platform)
                  THEN /\ errLog' = Append(errLog,
                                       [kind |-> "platform", file |-> file])
                       /\ tr' = "exit"
                       /\ UNCHANGED <<filesLeft, resolved>>
                  ELSE /\ resolved' = Append(resolved,
                                         TargetOf(file, suite, platform))
                       /\ filesLeft' = Tail(filesLeft)
                       /\ UNCHANGED <<tr, errLog>>
    /\ UNCHANGED <<appConfig, suiteArg, platformArg, fsPaths>>
    /\ UNCHANGED <<buildVars, appiumVars, genyVars, createVars>>

\* return suites
transformReturn ==
    /\ tr = "forEach"
    /\ filesLeft = <<>>
    /\ tr' = "returned"
    /\ UNCHANGED <<appConfig, suiteArg, platformArg, fsPaths, filesLeft,
                   resolved, errLog>>
    /\ UNCHANGED <<buildVars, appiumVars, genyVars, createVars>>

TransformNext ==
    \/ transform
    \/ filesForEach
    \/ transformReturn

SpecTransform == TransformInit /\ [][TransformNext]_vars

\* ---------------------------------------------------- createTests: Init
CreateInit ==
    /\ testSuites = <<>>
    /\ testDevices \in TestDevices
    /\ desiredCapabilities = BaseCapabilities
    /\ baseBefore = BaseCapabilities
    /\ ct = "idle"
    /\ listOfTests = <<>>
    /\ createCalls = 0
    /\ configTests \in ProjConfigs
    \* buildTestApps is not called
    /\ suites = <<>>
    /\ tiSdk = Undefined
    /\ moreLogs = FALSE
    /\ p = "start"
    /\ cur = 0
    /\ tiappMod = {}
    /\ changeCalls = <<>>
    /\ fsWrites = <<>>
    /\ procs = <<>>
    /\ outLeft = 0
    /\ printed = FALSE
    /\ lastExit = -1
    /\ doneCalls = 0
    \* transform is not called
    /\ appConfig = <<>>
    /\ suiteArg = <<>>
    /\ platformArg = <<>>
    /\ fsPaths = {}
    /\ tr = "start"
    /\ filesLeft = <<>>
    /\ resolved = <<>>
    /\ errLog = <<>>
    \* runAppium is not called
    /\ server = "localhost"
    /\ appiumProc = "null"
    /\ received = <<>>
    /\ appiumDone = 0
    /\ shutLogged = 0
    /\ exitLogged = FALSE
    \* launchGeny is not called
    /\ genyDevice = <<"a", "x">>
    /\ vmsLeft = <<>>
    /\ output = <<>>
    /\ listVmsCmd = "null"
    /\ g = "start"
    /\ playerPid = -1
    /\ logExist = FALSE
    /\ playerLog = <<>>
    /\ changed = FALSE
    /\ watching = FALSE
    /\ streams = <<>>
    /\ now = 30000
    /\ lastScan = <<>>
    /\ resolveCalls = 0
    /\ unwatchCalls = 0
    /\ genyDone = 0
    /\ genyStop = 0

\* ------------------------------------------------- createTests: actions
\* createTests(app, suites): the whole call; it returns listOfTests and
\* leaves what it set on the configuration's desiredCapabilities objects.
createTests ==
    /\ ct = "idle"
    /\ createCalls < MaxCalls
    /\ \E targets \in SeqsUpTo(CreateTargets, MaxCreateTargets) :
         LET r == ForEachSuite(targets, desiredCapabilities, <<>>,
                               configTests, testDevices)
         IN /\ testSuites' = targets
            /\ desiredCapabilities' = r.caps
            /\ listOfTests' = r.tests
    /\ ct' = "returned"
    /\ createCalls' = createCalls + 1
    /\ UNCHANGED <<testDevices, baseBefore>>
    /\ UNCHANGED <<buildVars, appiumVars, genyVars, transformVars>>

\* The caller is through with the returned list; the configuration stays
\* loaded (require caches the module) for the next call.
releaseTests ==
    /\ ct = "returned"
    /\ ct' = "idle"
    /\ testSuites' = <<>>
    /\ listOfTests' = <<>>
    /\ UNCHANGED <<testDevices, desiredCapabilities, baseBefore, createCalls>>
    /\ UNCHANGED <<buildVars, appiumVars, genyVars, transformVars>>

CreateNext ==
    \/ createTests
    \/ releaseTests

SpecCreate == CreateInit /\ [][CreateNext]_vars

\* ======================================================================
\* Properties of buildTestApps (checked under SpecBuild)
\* ======================================================================
\* A toolchain version was given / was not given (as the caller sees it).
SdkGiven == tiSdk \notin {Undefined, ""}

\* Targets whose patch reaction has run.
Processed == cur

\* The Project of target i: its project directory (which holds tiapp.xml).
ProjectOf(i) == <<suites[i].name, configTests[<<suites[i].platform, suites[i].name>>]>>

\* Target i is the first of the list that references its Project.
FirstReference(i) == \A j \in 1..(i - 1) : ProjectOf(j) # ProjectOf(i)

\* change() was called at target i.
PatchedAt(i) == \E k \in DOMAIN changeCalls : changeCalls[k].idx = i

\* The steps spawned after select.
Steps == SubSeq(procs, 2, Len(procs))

\* Every step of every target was spawned and has exited.
AllStepsExited ==
    /\ Len(procs) = 1 + 2 * Len(suites)
    /\ \A k \in DOMAIN procs : procs[k].state = "exited"

\* C1: with a toolchain version given, the descriptor patch runs exactly
\* once for each distinct Project (project directory) the targets reference:
\* at the first target referencing it, and at no later target sharing it.
C1_PatchOncePerProject ==
    SdkGiven =>
        /\ \A i \in 1..Processed : PatchedAt(i) <=> FirstReference(i)
        /\ \A k, l \in DOMAIN changeCalls :
              changeCalls[k].idx = changeCalls[l].idx => k = l

\* C2: clean and build steps are started in the order of the target list,
\* clean before build for each target, and a target's clean has exited
\* before its build is started.
C2_StepsInTargetOrder ==
    /\ \A k \in DOMAIN Steps :
          /\ Steps[k].idx = (k + 1) \div 2
          /\ Steps[k].cmd = IF k % 2 = 1 THEN "clean" ELSE "build"
          /\ Steps[k].platform = suites[Steps[k].idx].platform
          /\ Steps[k].dir = ProjectOf(Steps[k].idx)
    /\ \A k \in DOMAIN procs :
          procs[k].cmd = "build" =>
              /\ k > 1
              /\ procs[k - 1].cmd = "clean"
              /\ procs[k - 1].idx = procs[k].idx
              /\ procs[k - 1].state = "exited"

C2_Witness ==
    /\ Len(suites) >= 2
    /\ Len(procs) = 1 + 2 * Len(suites)
    /\ suites[1] # suites[2]

\* C3: at most one step process is alive at any time: when a step is
\* spawned, every process spawned before it has emitted 'exit'.
C3_OneProcessAlive ==
    /\ Cardinality({k \in DOMAIN procs : procs[k].state = "running"}) <= 1
    /\ \A k \in DOMAIN procs : k < Len(procs) => procs[k].state = "exited"

C3_Witness ==
    /\ Len(procs) >= 3
    /\ procs[Len(procs)].state = "running"
    /\ outLeft < MaxOutput

\* C4: with a toolchain version given, the select step runs exactly once
\* per run, for any target list (the empty one too), and has exited before
\* any descriptor is patched and before any clean or build step is started.
C4_SelectOnceFirst ==
    (SdkGiven /\ p # "start") =>
        /\ Len(procs) >= 1
        /\ procs[1].cmd = "select"
        /\ \A k \in DOMAIN procs : procs[k].cmd = "select" => k = 1
        /\ (Len(changeCalls) > 0 \/ Len(procs) > 1 \/ cur > 0)
              => procs[1].state = "exited"
        /\ p = "completed" => procs[1].state = "exited"

C4_Witness ==
    /\ SdkGiven
    /\ p = "completed"
    /\ Len(changeCalls) > 0
    /\ Len(procs) > 1

C4_WitnessEmpty == SdkGiven /\ p = "completed" /\ suites = <<>>

\* C5 (as stated): done is invoked at most once per run, and never before
\* select and the clean and build of every target were started and exited.
C5_DoneAfterAllSteps ==
    /\ doneCalls <= 1
    /\ doneCalls >= 1 => AllStepsExited

\* C5 (amended): the same, for a run with a toolchain version given.
C5_DoneAfterAllStepsWithSdk ==
    SdkGiven =>
        /\ doneCalls <= 1
        /\ doneCalls >= 1 => AllStepsExited /\ C2_StepsInTargetOrder

C5_Witness == SdkGiven /\ doneCalls = 1 /\ Len(suites) >= 2

\* C6: without a toolchain version buildTestApps is a no-op that completes
\* at once: done is invoked exactly once, within the call; no process is
\* spawned and no descriptor is read or written, whatever the targets.
C6_NoSdkNoOp ==
    ~SdkGiven =>
        \/ /\ p = "start"
           /\ doneCalls = 0
        \/ /\ p = "returned"
           /\ doneCalls = 1
           /\ procs = <<>>
           /\ changeCalls = <<>>
           /\ fsWrites = <<>>
           /\ tiappMod = {}

C6_Witness == ~SdkGiven /\ p = "returned" /\ Len(suites) >= 2 /\ tiSdk = ""

\* change() found no <sdk-version> element at its k-th call.
PatchFailedAt(k) == k \in DOMAIN changeCalls /\ ~changeCalls[k].ok

\* The run is over with neither done() called nor the failure reported:
\* the rejection was only warned about by the runtime.
EndedSilently == p = "warned" /\ doneCalls = 0

\* C17: if a descriptor to be patched has no <sdk-version> element, the run
\* aborts with a failure surfaced to the caller: the descriptor is not
\* written, no clean or build step is started for that target or a later
\* one, done is not called, and the run does not end silently.
C17_PatchFailureSurfaced ==
    \A k \in DOMAIN changeCalls :
        PatchFailedAt(k) =>
            /\ \A w \in DOMAIN fsWrites : fsWrites[w].file # changeCalls[k].file
            /\ \A n \in DOMAIN procs : procs[n].idx < changeCalls[k].idx
            /\ cur = changeCalls[k].idx
            /\ doneCalls = 0
            /\ ~EndedSilently
\* Some descriptor the run had to patch was malformed.
SomePatchFailed == \E k \in DOMAIN changeCalls : ~changeCalls[k].ok

\* C19: the pipeline advances on a step's exit whatever its exit code.
\* When every spawned process exits and every descriptor is well-formed, a
\* run with a toolchain version leads to done(), also from any point where
\* the step that just exited had a non-zero code; and done() comes only
\* after every step of every target was started and has exited.
C19_AdvancesWhateverExitCode ==
    /\ (SdkGiven /\ p = "start") ~> (doneCalls = 1 \/ SomePatchFailed)
    /\ (SdkGiven /\ lastExit = 1) ~> (doneCalls = 1 \/ SomePatchFailed)
    /\ []((SdkGiven /\ doneCalls = 1) => AllStepsExited)

\* done() was called in a run of two targets or more whose last step, at
\* least, exited with a non-zero code.
C19_Witness ==
    /\ SdkGiven
    /\ doneCalls = 1
    /\ lastExit = 1
    /\ Len(suites) >= 2
    /\ AllStepsExited

\* ======================================================================
\* Properties of runAppium (checked under SpecAppium)
\* ======================================================================
\* The chunk ends with 'started on <0.0.0.0 or the host pattern>:<port>'.
MatchesStarted(chunk) ==
    LET last == chunk[Len(chunk)]
    IN \/ last \in {"startedAny", "startedHost"}
       \/ last = "startedLike" /\ server = "127.0.0.1"

\* C9: over any sequence of stdout chunks, done is invoked exactly once,
\* at the first chunk matching the 'started on' pattern, and not again for
\* later matching chunks.
C9_DoneOnceAtFirstMatch ==
    appiumDone = IF \E k \in DOMAIN received : MatchesStarted(received[k])
                 THEN 1 ELSE 0


\* ======================================================================
\* Properties of launchGeny (checked under SpecGeny)
\* ======================================================================
\* The boot lines among some lines, and whether the last of them is at
\* most 10 s old at clock reading t.
BootLinesOf(lines) == SelectSeq(lines, LAMBDA l : l.kind = "boot")
LastBootFresh(lines, t) ==
    LET boots == BootLinesOf(lines)
    IN /\ Len(boots) > 0
       /\ t - 1000 * boots[Len(boots)].ts <= 10000

\* C7: a scan resolves the watch exactly if its governing boot line (the
\* last one matched in the scanned text) is at most 10 s old at the check;
\* every resolution unwatches the file, and while no scan has resolved the
\* watch stays installed and the launch pending.
C7_ResolveOnlyWithinWindow ==
    /\ \A n \in DOMAIN lastScan :
          lastScan[n].resolved <=> LastBootFresh(lastScan[n].lines, lastScan[n].at)
    /\ unwatchCalls = resolveCalls
    /\ g = "watching" => watching /\ resolveCalls = 0
    /\ g \in {"ready", "done"} => ~watching /\ resolveCalls >= 1
    /\ resolveCalls >= 1 => g \in {"ready", "done"}

\* A boot line aged 3 s has resolved the watch.
C7_Witness ==
    /\ Len(lastScan) = 1
    /\ lastScan[1].resolved
    /\ lastScan[1].at - 1000 * BootLinesOf(lastScan[1].lines)[1].ts = 3000
    /\ g = "done"

\* A log whose only boot line is aged 30 s was scanned: still watching.
C7_WitnessStale ==
    /\ Len(lastScan) = 1
    /\ ~lastScan[1].resolved
    /\ Len(BootLinesOf(lastScan[1].lines)) = 1
    /\ lastScan[1].at - 1000 * BootLinesOf(lastScan[1].lines)[1].ts = 30000
    /\ watching
    /\ g = "watching"

\* C8: the resolve decision depends only on the chronologically last boot
\* line of the file's full current content: a scan resolves only if that
\* line is fresh, and a read of the whole file that leaves the watch
\* unresolved found that line stale (or no boot line at all).
C8_LastBootLineOfFileGoverns ==
    \A n \in DOMAIN lastScan :
        /\ lastScan[n].resolved => LastBootFresh(lastScan[n].file, lastScan[n].at)
        /\ (lastScan[n].final /\ g = "watching")
              => ~LastBootFresh(lastScan[n].file, lastScan[n].at)

\* C10: the player is spawned only after 'list vms' has exited and printed
\* a line starting with the exactly quoted device name; without such a line
\* stop is called, no player is spawned and no watch is installed.
ListVmsPrinted == output \o vmsLeft
ExactlyListed == \E k \in DOMAIN ListVmsPrinted : ListVmsPrinted[k] = genyDevice
C10_ExactNameGuardsLaunch ==
    /\ (g \in {"launch", "statLoop"} \/ playerPid # -1)
          => listVmsCmd = "exited"
    /\ g \in {"launch", "statLoop"} => ExactlyListed
    /\ (listVmsCmd = "exited" /\ g \in {"launch", "reject", "stopped", "statLoop"}
          /\ ~ExactlyListed)
          => /\ g \in {"reject", "stopped"}
             /\ playerPid = -1
             /\ ~watching
             /\ g = "stopped" => genyStop = 1

\* C18: once the log-file watch has resolved, the file is unwatched: no
\* later append event runs the watch listener again (no stream is opened
\* for another scan, the watch stays uninstalled), and done is invoked
\* exactly once for the launch.
C18_UnwatchedOnceResolved ==
    [][/\ resolveCalls >= 1 =>
             /\ ~watching'
             /\ Len(streams') <= Len(streams)
             /\ g' \in {"ready", "done"}
       /\ genyDone' <= 1
       /\ (g' = "done") <=> (genyDone' = 1)]_vars

\* The player appended to its log after the scan that resolved the watch;
\* done was invoked once and nothing is watching or reading.
C18_Witness ==
    /\ Len(lastScan) = 1
    /\ lastScan[1].resolved
    /\ Len(playerLog) > Len(lastScan[1].file)
    /\ changed
    /\ ~watching
    /\ streams = <<>>
    /\ g = "done"
    /\ genyDone = 1

\* C20: after the player is spawned, while the log file does not exist the
\* launch is stuck in the stat loop whatever the clock reads: neither done
\* nor stop is invoked and no watch is installed; a watch, a resolution or
\* a completed launch means the file exists.
C20_BlocksUntilLogExists ==
    /\ (playerPid # -1 /\ ~logExist) =>
          /\ g = "statLoop"
          /\ ~watching
          /\ streams = <<>>
          /\ resolveCalls = 0
          /\ genyDone = 0
          /\ genyStop = 0
    /\ (watching \/ g \in {"watching", "ready", "done"}) => logExist

\* The clock has passed every instant of the model and the launch is
\* still in the stat loop, the file still missing.
C20_Witness ==
    /\ playerPid # -1
    /\ ~logExist
    /\ g = "statLoop"
    /\ \A i \in Instants : i <= now
    /\ genyDone = 0
    /\ genyStop = 0

\* C21: for one launchGeny invocation the outcome is settled at most once,
\* under every interleaving of the list-vms exit, the appends to the log
\* and the read streams' chunks: done and stop are never both invoked, and
\* neither is invoked more than once.
C21_SettledAtMostOnce ==
    /\ genyDone + genyStop <= 1
    /\ genyStop = 1 => (g = "stopped" /\ playerPid = -1 /\ resolveCalls = 0)
    /\ genyDone = 1 => (g = "done" /\ resolveCalls >= 1)

\* The watch was resolved twice (two chunks with a fresh boot line each)
\* and done was invoked once, stop never.
C21_Witness ==
    /\ resolveCalls >= 2
    /\ genyDone = 1
    /\ genyStop = 0
    /\ g = "done"

\* The launch was rejected at the list-vms exit while output of the
\* command was still pending: stop was invoked once, done never.
C21_WitnessStop ==
    /\ genyStop = 1
    /\ genyDone = 0
    /\ Len(vmsLeft) > 0

\* ======================================================================
\* Properties of transform (checked under SpecTransform)
\* ======================================================================
\* transform has ended: it returned, the process exited, or it threw.
Ended == tr \in {"returned", "exit", "threw"}

\* The (platform, suite) pairs of the configuration without the reserved
\* key, of the requested platform only when one is given, in the order the
\* configuration lists them.
ExpectedPairs ==
    SelectSeq(ConfigPairs(appConfig),
              LAMBDA pair : /\ pair[2] # DesiredCapKey
                            /\ platformArg \in {<<>>, pair[1]})

\* Every expected pair has its suite file.
ExpectedFilesExist ==
    \A k \in DOMAIN ExpectedPairs :
        SuiteFile(ExpectedPairs[k][2], ExpectedPairs[k][1]) \in fsPaths

\* C11: with no explicit suite request (and every suite file in place),
\* transform returns exactly one target for each (platform, suite) pair of
\* the configuration, the reserved key and the platforms other than the
\* requested one left out, in configuration order and without duplicates.
C11_OneTargetPerConfiguredPair ==
    (suiteArg = <<>> /\ ExpectedFilesExist /\ Ended) =>
        /\ tr = "returned"
        /\ Len(resolved) = Len(ExpectedPairs)
        /\ \A k \in DOMAIN resolved :
              /\ resolved[k].platform = ExpectedPairs[k][1]
              /\ resolved[k].name = ExpectedPairs[k][2]
              /\ resolved[k].abs = SuiteFile(ExpectedPairs[k][2],
                                             ExpectedPairs[k][1])
        /\ \A k, l \in DOMAIN resolved :
              (resolved[k].name = resolved[l].name
                 /\ resolved[k].platform = resolved[l].platform) => k = l

\* The requested suite files, and a request naming only existing files
\* <suite>/<platform>.js of a supported platform.
Requested == Split(suiteArg, Comma)
RequestedFilesExist ==
    \A k \in DOMAIN Requested :
        /\ Requested[k] \in fsPaths
        /\ \E suite \in {Login, Signup}, platform \in {Ios, Android, Windows} :
              Requested[k] = SuiteFile(suite, platform)

\* C12: with suites requested (existing files), transform uses the list
\* verbatim: the targets are exactly the requested files, in input order,
\* and none is added from the configuration.
C12_RequestedListVerbatim ==
    (suiteArg # <<>> /\ RequestedFilesExist /\ Ended) =>
        /\ tr = "returned"
        /\ Len(resolved) = Len(Requested)
        /\ \A k \in DOMAIN resolved : resolved[k].abs = Requested[k]

\* C13: with no suite requested and no (platform, suite) pair left by the
\* platform filter, transform returns the empty list; no error is logged
\* and the run is not aborted.
C13_EmptyResultIsValid ==
    (suiteArg = <<>> /\ ExpectedPairs = <<>> /\ Ended) =>
        /\ tr = "returned"
        /\ resolved = <<>>
        /\ errLog = <<>>

\* The list transform goes through, its missing files, and the files that
\* are rejected for another reason (no platform segment, or a platform
\* that is not supported).
Files == SuiteFiles(suiteArg, appConfig, platformArg)
Missing(file) == file \notin fsPaths
Malformed(file) ==
    LET parts == Split(file, Sep)
    IN \/ Len(parts) < 2
       \/ /\ Len(parts) >= 2
          /\ SliceTo(parts[2], Len(parts[2]) - 3) \notin {Ios, Android, Windows}
SomeFileMissing == \E k \in DOMAIN Files : Missing(Files[k])
FirstFailure ==
    CHOOSE k \in DOMAIN Files :
        /\ Missing(Files[k]) \/ Malformed(Files[k])
        /\ \A j \in 1..(k - 1) : ~Missing(Files[j]) /\ ~Malformed(Files[j])

\* C14 (as stated): if a file of the list does not exist, resolution ends
\* in an error that names the missing path and aborts the run; no target
\* list is returned.
C14_MissingFileNamed ==
    (tr # "start" /\ SomeFileMissing /\ Ended) =>
        /\ tr = "exit"
        /\ \E k \in DOMAIN errLog :
              errLog[k].kind = "missing" /\ Missing(errLog[k].file)

\* C14 (amended): if a file of the list does not exist, the run is aborted
\* and no target list is returned; the error names the missing path when
\* no file before it in the list is rejected for another reason.
C14_MissingFileAborts ==
    /\ (tr # "start" /\ SomeFileMissing /\ Ended) =>
          /\ tr \in {"exit", "threw"}
          /\ Missing(Files[FirstFailure]) =>
                /\ tr = "exit"
                /\ errLog = <<[kind |-> "missing",
                               file |-> Files[FirstFailure]]>>
    /\ tr = "returned" => \A k \in DOMAIN Files : ~Missing(Files[k])
    /\ \A k \in DOMAIN errLog :
          errLog[k].kind = "missing" => Missing(errLog[k].file)

\* The second suite file of the configuration is missing: the run ends
\* there, with the first file's target already pushed.
C14_Witness ==
    /\ suiteArg = <<>>
    /\ tr = "exit"
    /\ Len(resolved) = 1
    /\ errLog = <<[kind |-> "missing", file |-> Files[2]]>>
    /\ Files[2] # <<>>

\* ======================================================================
\* Properties of createTests (checked under SpecCreate)
\* ======================================================================
\* The devices the configuration declares for target i of the list, and
\* the number of devices declared for the first i targets together.
DevicesOf(i) == testDevices[<<testSuites[i].platform, testSuites[i].name>>]
RECURSIVE DevicesUpTo(_)
DevicesUpTo(i) == IF i = 0 THEN 0 ELSE DevicesUpTo(i - 1) + Len(DevicesOf(i))

\* C15: createTests returns exactly one (suite, capability) pair per device
\* declared for each target, in target order and then device order, each
\* pair with that device's name and OS version and that target's suite path.
C15_OnePairPerDevice ==
    ct = "returned" =>
        /\ Len(listOfTests) = DevicesUpTo(Len(testSuites))
        /\ \A i \in DOMAIN testSuites :
              \A j \in DOMAIN DevicesOf(i) :
                  LET pair == listOfTests[DevicesUpTo(i - 1) + j]
                  IN /\ pair.suite = testSuites[i].abs
                     /\ pair.cap.deviceName = DevicesOf(i)[j].deviceName
                     /\ pair.cap.platformVersion = DevicesOf(i)[j].platformVersion

\* A second call returned three pairs for two targets of different
\* platforms, the first with two devices and the second with one.
C15_Witness ==
    /\ ct = "returned"
    /\ createCalls = 2
    /\ Len(testSuites) = 2
    /\ testSuites[1].platform # testSuites[2].platform
    /\ Len(DevicesOf(1)) = 2
    /\ Len(DevicesOf(2)) = 1
    /\ Len(listOfTests) = 3

\* C16: createTests never mutates the per-platform base capability object
\* of the configuration: after any call, and any sequence of calls, the
\* base capabilities are what they were before.
C16_BaseNeverMutated == desiredCapabilities = baseBefore

====
